---- MODULE Spec2Model ----
(***************************************************************************)
(* A model of cmac() in cmac/cmac_radar.py: the CMAC 2.0 pipeline that     *)
(* adds the derived fields to a radar volume, step by step, and then       *)
(* replaces the volume's metadata.                                         *)
(*                                                                         *)
(* Python strings that the code takes apart (the gate_id notes, the        *)
(* meta_append specifier) are sequences of one-character strings, so that  *)
(* split(), int(), lower() and endswith() are computed as Python computes  *)
(* them.  Field names and error names are plain strings.                   *)
(***************************************************************************)
EXTENDS Integers, Sequences, FiniteSets, TLC

VARIABLES
    pc,           \* position of the current cmac() call
    calls,        \* number of cmac() calls started on this radar
    failure,      \* the exception that ended the current call, or "none"
    fields,       \* names of the fields on the radar (radar.fields keys)
    clutter,      \* radar.fields['xsapr_clutter']['data'], per gate
    refl_mask,    \* radar.fields['reflectivity']['data'].mask, per gate
    gate_id,      \* radar.fields['gate_id']: data, notes, valid_max
    cat_dict,     \* the local cat_dict of the current call
    cmac_gates,   \* gates included by the local gate filter cmac_gates
    spec_at,      \* radar.fields['specific_attenuation']['data']
    rain_rate,    \* radar.fields['rain_rate_A']['data']
    metadata,     \* radar.metadata
    fuzz,         \* history: the classifier's own output (before override)
    written,      \* history: fields written by the current call
    steps,        \* history: steps completed by the current call, in order
    meta0,        \* history: radar.metadata when the current call started
    fields0,      \* history: radar.fields keys when the call started
    sel,          \* history: meta_append and the file system at the
                  \*          metadata step of the current call
    p_entries,    \* parser harness: the entries the notes are written from
    p_notes,      \* parser harness: the notes string
    p_first,      \* parser harness: result of the parse at lines 90-93
    p_second      \* parser harness: result of the parse at lines 140-144

vars == <<pc, calls, failure, fields, clutter, refl_mask, gate_id, cat_dict,
          cmac_gates, spec_at, rain_rate, metadata, fuzz, written, steps,
          meta0, fields0, sel, p_entries, p_notes, p_first, p_second>>

pipeVars == <<pc, calls, failure, fields, clutter, refl_mask, gate_id,
              cat_dict, cmac_gates, spec_at, rain_rate, metadata, fuzz,
              written, steps, meta0, fields0, sel>>

parseVars == <<p_entries, p_notes, p_first, p_second>>

-----------------------------------------------------------------------------
(* Bounds *)

NumGates == 1
MaxCalls == 2
MaxEntries == 4

Gates == 1..NumGates

-----------------------------------------------------------------------------
(* Python string operations on sequences of characters *)

DigitChars == <<"0", "1", "2", "3", "4", "5", "6", "7", "8", "9">>

IsDigit(c) == \E i \in 1..10 : DigitChars[i] = c

DigitVal(c) == (CHOOSE i \in 1..10 : DigitChars[i] = c) - 1

\* s.split(sep): the pieces between separators, empty pieces included.
RECURSIVE SplitFrom(_, _, _, _)
SplitFrom(s, sep, i, cur) ==
    IF i > Len(s) THEN <<cur>>
    ELSE IF s[i] = sep THEN <<cur>> \o SplitFrom(s, sep, i + 1, <<>>)
    ELSE SplitFrom(s, sep, i + 1, Append(cur, s[i]))

Split(s, sep) == SplitFrom(s, sep, 1, <<>>)

\* int(s) accepts a non-empty run of decimal digits (no sign or blank
\* occurs in the strings modelled) and raises ValueError otherwise.
IsInt(s) == Len(s) > 0 /\ \A i \in 1..Len(s) : IsDigit(s[i])

RECURSIVE IntOf(_)
IntOf(s) ==
    IF Len(s) = 0 THEN 0
    ELSE 10 * IntOf(SubSeq(s, 1, Len(s) - 1)) + DigitVal(s[Len(s)])

\* c.lower() for the characters of the specifiers modelled.
LowerChar(c) ==
    CASE c = "J" -> "j" [] c = "S" -> "s" [] c = "O" -> "o"
      [] c = "N" -> "n" [] c = "C" -> "c" [] c = "M" -> "m"
      [] OTHER -> c

Lower(s) == [i \in 1..Len(s) |-> LowerChar(s[i])]

EndsWith(s, suffix) ==
    /\ Len(s) >= Len(suffix)
    /\ SubSeq(s, Len(s) - Len(suffix) + 1, Len(s)) = suffix

-----------------------------------------------------------------------------
(* Python dict operations *)

EmptyDict == [k \in {} |-> 0]

\* d.update({k: v})
DictUpdate(d, k, v) ==
    [x \in (DOMAIN d) \cup {k} |-> IF x = k THEN v ELSE d[x]]

\* d.update(e) for a dict e
DictMerge(d, e) ==
    [x \in (DOMAIN d) \cup (DOMAIN e) |-> IF x \in DOMAIN e THEN e[x] ELSE d[x]]

-----------------------------------------------------------------------------
(* The gate_id notes parser, written out twice in cmac() *)

\* for pair_str in notes.split(','):
\*     cat_dict.update({pair_str.split(':')[1]: int(pair_str.split(':')[0])})
\* Python indexes from 0, TLA+ from 1: split(':')[1] is parts[2].
RECURSIVE ParseLoop(_, _, _)
ParseLoop(pairs, i, d) ==
    IF i > Len(pairs) THEN [err |-> "none", dict |-> d]
    ELSE LET parts == Split(pairs[i], ":") IN
         IF Len(parts) < 2 THEN [err |-> "IndexError", dict |-> d]
         ELSE IF ~IsInt(parts[1]) THEN [err |-> "ValueError", dict |-> d]
         ELSE ParseLoop(pairs, i + 1, DictUpdate(d, parts[2], IntOf(parts[1])))

\* Variant: an entry without a colon is skipped instead of raising.
RECURSIVE ParseLoopLenient(_, _, _)
ParseLoopLenient(pairs, i, d) ==
    IF i > Len(pairs) THEN [err |-> "none", dict |-> d]
    ELSE LET parts == Split(pairs[i], ":") IN
         IF Len(parts) < 2 THEN ParseLoopLenient(pairs, i + 1, d)
         ELSE IF ~IsInt(parts[1]) THEN [err |-> "ValueError", dict |-> d]
         ELSE ParseLoopLenient(pairs, i + 1,
                               DictUpdate(d, parts[2], IntOf(parts[1])))

ParseNotesLenient(notes) == ParseLoopLenient(Split(notes, ","), 1, EmptyDict)

ParseNotes(notes) == ParseLoop(Split(notes, ","), 1, EmptyDict)

RECURSIVE ParseLoopAtten(_, _, _)
ParseLoopAtten(pairs, i, d) ==
    IF i > Len(pairs) THEN [err |-> "none", dict |-> d]
    ELSE LET parts == Split(pairs[i], ":") IN
         IF Len(parts) < 2 THEN [err |-> "IndexError", dict |-> d]
         ELSE IF ~IsInt(parts[1]) THEN [err |-> "ValueError", dict |-> d]
         ELSE ParseLoopAtten(pairs, i + 1,
                             DictUpdate(d, parts[2], IntOf(parts[1])))

ParseNotesAtten(notes) == ParseLoopAtten(Split(notes, ","), 1, EmptyDict)

-----------------------------------------------------------------------------
(* The fuzzy-logic classifier, cmac_processing.do_my_fuzz.  Its code is not *)
(* part of cmac_radar.py; what it hands back is taken from the              *)
(* specification: an integer category per gate and a notes string          *)
(* "0:<label>,1:<label>,..." over a vocabulary that has no clutter class.  *)

LblRain == <<"r", "a", "i", "n">>
LblSnow == <<"s", "n", "o", "w">>
LblMelting == <<"m", "e", "l", "t", "i", "n", "g">>
LblMultiTrip == <<"m", "u", "l", "t", "i", "_", "t", "r", "i", "p">>
LblNoScatter == <<"n", "o", "_", "s", "c", "a", "t", "t", "e", "r">>
LblClutter == <<"c", "l", "u", "t", "t", "e", "r">>

\* The vocabulary of the parser example, and a five-class vocabulary
\* (ids 0..4, so that the next free id is 5).
Vocabularies ==
    { <<LblRain, LblSnow, LblMelting>>,
      <<LblMultiTrip, LblRain, LblSnow, LblNoScatter, LblMelting>> }

\* str(n) for 0 <= n < 100
StrOfInt(n) ==
    IF n < 10 THEN <<DigitChars[n + 1]>>
    ELSE <<DigitChars[(n \div 10) + 1], DigitChars[(n % 10) + 1]>>

RECURSIVE Join(_, _)
Join(pieces, sep) ==
    IF Len(pieces) = 0 THEN <<>>
    ELSE IF Len(pieces) = 1 THEN pieces[1]
    ELSE pieces[1] \o <<sep>> \o Join(Tail(pieces), sep)

NotesOf(vocab) ==
    Join([i \in 1..Len(vocab) |-> StrOfInt(i - 1) \o <<":">> \o vocab[i]], ",")

ClassifierOutputs ==
    UNION { { [data |-> d, notes |-> NotesOf(v), valid_max |-> Len(v) - 1] :
                d \in [Gates -> 0..(Len(v) - 1)] } : v \in Vocabularies }

-----------------------------------------------------------------------------
(* The radar volume *)

InputFields ==
    {"reflectivity", "velocity", "xsapr_clutter",
     "normalized_coherent_power", "cross_correlation_ratio"}

NoGateId == [data |-> [g \in Gates |-> 0], notes |-> <<>>, valid_max |-> -1]

NoData == [g \in Gates |-> 0]

NoCatDict == [err |-> "unset", dict |-> EmptyDict]

NoSel == [meta_append |-> [none |-> TRUE, str |-> <<>>],
          file |-> "unused", config_has_metadata |-> FALSE]

\* radar.add_field(name, dic, replace_existing): raises ValueError when the
\* field exists and replace_existing is False.
RECURSIVE AddFields(_, _, _)
AddFields(fs, names, replace_existing) ==
    IF Len(names) = 0 THEN [err |-> "none", fields |-> fs]
    ELSE IF names[1] \in fs /\ ~replace_existing
         THEN [err |-> "ValueError", fields |-> fs]
    ELSE AddFields(fs \cup {names[1]}, Tail(names), replace_existing)

\* Variant: attenuation correction placed before phase correction.
PipelineAttenFirst ==
    <<"derive", "classify", "clutter", "velocity", "atten", "phase", "rain",
      "meta">>

\* Variant: the metadata step placed before the rain-rate derivation.
PipelineMetaEarly ==
    <<"derive", "classify", "clutter", "velocity", "phase", "atten", "meta",
      "rain">>

\* The steps of cmac(), in the order the function body runs them.
Pipeline ==
    <<"derive", "classify", "clutter", "velocity", "phase", "atten", "rain",
      "meta">>

StepAfter(step) ==
    LET i == CHOOSE j \in 1..Len(Pipeline) : Pipeline[j] = step
    IN  IF i = Len(Pipeline) THEN "done" ELSE Pipeline[i + 1]

\* The derived fields a step looks up on the radar by name.
Reads(step) ==
    CASE step = "clutter" -> {"gate_id"}
      [] step = "velocity" -> {"gate_id"}
      [] step = "phase" -> {}
      [] step = "atten" -> {"filtered_corrected_differential_phase", "gate_id"}
      [] step = "rain" -> {"specific_attenuation"}
      [] OTHER -> {}

\* An exception leaves cmac(): nothing is caught, nothing is undone.
Raise(error) ==
    /\ pc' = "failed"
    /\ failure' = error

Advance(step) ==
    /\ pc' = StepAfter(step)
    /\ steps' = Append(steps, step)
    /\ failure' = failure

-----------------------------------------------------------------------------
(* Initial state: a radar volume as read from file, not yet processed *)

PriorMeta ==
    [instrument_name |-> <<"xsapr">>, site_id |-> <<"i5">>]

Argv == <<"cmac", "radar.nc">>

Init ==
    /\ pc = "idle"
    /\ calls = 0
    /\ failure = "none"
    /\ fields = InputFields
    /\ clutter \in [Gates -> {0, 1}]
    /\ refl_mask \in [Gates -> BOOLEAN]
    /\ gate_id = NoGateId
    /\ cat_dict = NoCatDict
    /\ cmac_gates = {}
    /\ spec_at = NoData
    /\ rain_rate = NoData
    /\ metadata = PriorMeta
    /\ fuzz = NoGateId
    /\ written = {}
    /\ steps = <<>>
    /\ meta0 = PriorMeta
    /\ fields0 = InputFields
    /\ sel = NoSel
    /\ p_entries = <<>>
    /\ p_notes = <<>>
    /\ p_first = NoCatDict
    /\ p_second = NoCatDict

-----------------------------------------------------------------------------
(* cmac(): one action per step of the function body *)

\* def cmac(radar, sonde, config, meta_append=None, verbose=True)
Call ==
    /\ pc \in {"idle", "done", "failed"}
    /\ calls < MaxCalls
    /\ pc' = Pipeline[1]
    /\ calls' = calls + 1
    /\ failure' = "none"
    /\ cat_dict' = NoCatDict
    /\ cmac_gates' = {}
    /\ written' = {}
    /\ steps' = <<>>
    /\ meta0' = metadata
    /\ fields0' = fields
    /\ sel' = NoSel
    /\ UNCHANGED <<fields, clutter, refl_mask, gate_id, spec_at, rain_rate,
                   metadata, fuzz>>
    /\ UNCHANGED parseVars

\* Lines 47-71: map the sounding to the gates, texture, SNR; add the four
\* fields with replace_existing=True.
DeriveFields ==
    /\ pc = "derive"
    /\ \E lib_ok \in BOOLEAN :
        IF ~lib_ok
        THEN /\ Raise("LibraryError")
             /\ UNCHANGED <<fields, written, steps>>
        ELSE LET names == <<"sounding_temperature", "height",
                            "signal_to_noise_ratio", "velocity_texture">>
                 r == AddFields(fields, names, TRUE)
             IN  /\ fields' = r.fields
                 /\ written' = written \cup {names[i] : i \in 1..Len(names)}
                 /\ Advance("derive")
    /\ UNCHANGED <<calls, clutter, refl_mask, gate_id, cat_dict, cmac_gates,
                   spec_at, rain_rate, metadata, fuzz, meta0, fields0, sel>>
    /\ UNCHANGED parseVars

\* The classifier is a function of the volume's moments and the sounding,
\* which cmac() does not change: a later call on the same volume gets the
\* field an earlier call got.
FuzzOutputs(earlier) ==
    IF earlier = NoGateId THEN ClassifierOutputs ELSE {earlier}

\* Lines 79-82: the classifier's field becomes gate_id (replace_existing).
Classify ==
    /\ pc = "classify"
    /\ \E lib_ok \in BOOLEAN :
        IF ~lib_ok
        THEN /\ Raise("LibraryError")
             /\ UNCHANGED <<fields, written, steps, gate_id, fuzz>>
        ELSE \E my_fuzz \in FuzzOutputs(fuzz) :
             LET r == AddFields(fields, <<"gate_id">>, TRUE)
             IN  /\ fields' = r.fields
                 /\ written' = written \cup {"gate_id"}
                 /\ gate_id' = my_fuzz
                 /\ fuzz' = my_fuzz
                 /\ Advance("classify")
    /\ UNCHANGED <<calls, clutter, refl_mask, cat_dict, cmac_gates, spec_at,
                   rain_rate, metadata, meta0, fields0, sel>>
    /\ UNCHANGED parseVars

\* Line 86: the category id written into clutter-masked gates; line 88: the
\* id in the appended notes entry; line 89: the new valid_max.
ClutterDataId == 5
ClutterNotesId == 5
ClutterValidMax == 5

\* Lines 85-93: the clutter override, then the first parse of the notes.
ClutterOverride ==
    /\ pc = "clutter"
    /\ \E notes \in {gate_id.notes \o <<",">> \o StrOfInt(ClutterNotesId)
                        \o <<":">> \o LblClutter} :
       \E parsed \in {ParseNotes(notes)} :
       LET data == [g \in Gates |->
                      IF clutter[g] = 1 THEN ClutterDataId ELSE gate_id.data[g]]
       IN  /\ gate_id' = [data |-> data, notes |-> notes,
                          valid_max |-> ClutterValidMax]
           /\ cat_dict' = parsed
           /\ IF parsed.err # "none"
              THEN /\ Raise(parsed.err)
                   /\ UNCHANGED steps
              ELSE Advance("clutter")
    /\ UNCHANGED <<calls, fields, clutter, refl_mask, cmac_gates, spec_at,
                   rain_rate, metadata, fuzz, written, meta0, fields0, sel>>
    /\ UNCHANGED parseVars

\* GateFilter.exclude_all() followed by include_equal('gate_id', v) for
\* each v of a list: a gate is included when its gate_id equals one of them.
IncludeEqual(ids) == {g \in Gates : gate_id.data[g] \in ids}

\* Variant: the snow gates are not included.
VelocityLabelsNoSnow == {LblRain, LblMelting}

\* Lines 101-103: the labels whose gates the dealiaser may use.
VelocityLabels == {LblRain, LblMelting, LblSnow}

\* Lines 99-108: the gate filter, region-based dealiasing, corrected_velocity
\* added with replace_existing=True.
VelocityCorrection ==
    /\ pc = "velocity"
    /\ IF ~(VelocityLabels \subseteq DOMAIN cat_dict.dict)
       THEN /\ Raise("KeyError")
            /\ UNCHANGED <<fields, written, steps, cmac_gates>>
       ELSE /\ cmac_gates' =
                   IncludeEqual({cat_dict.dict[l] : l \in VelocityLabels})
            /\ \E lib_ok \in BOOLEAN :
                IF ~lib_ok
                THEN /\ Raise("LibraryError")
                     /\ UNCHANGED <<fields, written, steps>>
                ELSE LET r == AddFields(fields, <<"corrected_velocity">>, TRUE)
                     IN  /\ fields' = r.fields
                         /\ written' = written \cup {"corrected_velocity"}
                         /\ Advance("velocity")
    /\ UNCHANGED <<calls, clutter, refl_mask, gate_id, cat_dict, spec_at,
                   rain_rate, metadata, fuzz, meta0, fields0, sel>>
    /\ UNCHANGED parseVars

\* Lines 121-124: the phase fields, in the order they are added; no
\* replace_existing argument, so add_field's default (False) applies.
PhaseFields ==
    <<"corrected_differential_phase", "filtered_corrected_differential_phase",
      "corrected_specific_diff_phase", "filtered_corrected_specific_diff_phase">>

\* Lines 112-124: melting level, LP phase processing, the post-filter over
\* cmac_gates, then the four fields are added.
PhaseCorrection ==
    /\ pc = "phase"
    /\ \E lib_ok \in BOOLEAN :
        IF ~lib_ok
        THEN /\ Raise("LibraryError")
             /\ UNCHANGED <<fields, written, steps>>
        ELSE LET r == AddFields(fields, PhaseFields, FALSE)
             IN  /\ fields' = r.fields
                 /\ written' = written \cup (r.fields \ fields)
                 /\ IF r.err # "none"
                    THEN /\ Raise(r.err)
                         /\ UNCHANGED steps
                    ELSE Advance("phase")
    /\ UNCHANGED <<calls, clutter, refl_mask, gate_id, cat_dict, cmac_gates,
                   spec_at, rain_rate, metadata, fuzz, meta0, fields0, sel>>
    /\ UNCHANGED parseVars

\* Specific attenuation (dB/km) the library may compute for a gate.
AttenLevels == {0, 1, 16}

\* Line 148: the label whose gates keep their specific attenuation.
AttenLabel == LblRain

\* Variant: the excluded gates keep their value.
MaskNothing(raw, rain_gates) == raw

\* Line 149: spec_at['data'][rain_gates.gate_excluded] = 0.0
MaskToRain(raw, rain_gates) ==
    [g \in Gates |-> IF g \in rain_gates THEN raw[g] ELSE 0]

\* Lines 151-152, no replace_existing argument.
AttenFields == <<"specific_attenuation", "attenuation_corrected_reflectivity">>

\* Lines 132-152: attenuation from the filtered phase field, the second
\* parse of the notes, the rain mask, then the two fields are added.
AttenuationCorrection ==
    /\ pc = "atten"
    /\ \E lib_ok \in BOOLEAN :
        IF ~lib_ok
        THEN /\ Raise("LibraryError")
             /\ UNCHANGED <<fields, written, steps, cat_dict, spec_at>>
        ELSE \E raw \in [Gates -> AttenLevels] :
             \E parsed \in {ParseNotesAtten(gate_id.notes)} :
                 IF parsed.err # "none"
                 THEN /\ Raise(parsed.err)
                      /\ cat_dict' = parsed
                      /\ UNCHANGED <<fields, written, steps, spec_at>>
                 ELSE IF AttenLabel \notin DOMAIN parsed.dict
                 THEN /\ Raise("KeyError")
                      /\ cat_dict' = parsed
                      /\ UNCHANGED <<fields, written, steps, spec_at>>
                 ELSE LET rain_gates == IncludeEqual({parsed.dict[AttenLabel]})
                          masked == MaskToRain(raw, rain_gates)
                          r == AddFields(fields, AttenFields, FALSE)
                      IN  /\ cat_dict' = parsed
                          /\ fields' = r.fields
                          /\ written' = written \cup (r.fields \ fields)
                          /\ spec_at' = IF "specific_attenuation" \in fields
                                        THEN spec_at ELSE masked
                          /\ IF r.err # "none"
                             THEN /\ Raise(r.err)
                                  /\ UNCHANGED steps
                             ELSE Advance("atten")
    /\ UNCHANGED <<calls, clutter, refl_mask, gate_id, cmac_gates, rain_rate,
                   metadata, fuzz, meta0, fields0, sel>>
    /\ UNCHANGED parseVars

\* Line 158: R = 51.3 * A ** 0.81, in tenths of mm/hr, for the attenuation
\* levels modelled (51.3 * 16 ** 0.81 = 484.68...).
PowerLaw(a) ==
    CASE a = 0 -> 0
      [] a = 1 -> 513
      [] a = 16 -> 4847

\* Variant: the rain rate clipped to valid_max (400.0 mm/hr).
RainArraysClipped(atten) ==
    [atten |-> atten,
     rain |-> [g \in Gates |->
                 IF PowerLaw(atten[g]) > 4000 THEN 4000 ELSE PowerLaw(atten[g])]]

\* Lines 158-160: R is a new array; rainrate is a deep copy of the
\* specific_attenuation field whose 'data' is then rebound to R.  The
\* result is the pair of arrays (specific_attenuation, rain_rate_A).
RainArrays(atten) ==
    [atten |-> atten, rain |-> [g \in Gates |-> PowerLaw(atten[g])]]

\* Lines 170-172: rain_rate_A['data'][np.where(mask)] = 0.0
ZeroWhereMasked(rain, mask) ==
    [g \in Gates |-> IF mask[g] THEN 0 ELSE rain[g]]

\* Lines 158-176: the rain rate, stored with radar.fields.update.
RainRate ==
    /\ pc = "rain"
    /\ LET a == RainArrays(spec_at)
       IN  /\ spec_at' = a.atten
           /\ rain_rate' = ZeroWhereMasked(a.rain, refl_mask)
    /\ fields' = fields \cup {"rain_rate_A"}
    /\ written' = written \cup {"rain_rate_A"}
    /\ Advance("rain")
    /\ UNCHANGED <<calls, clutter, refl_mask, gate_id, cat_dict, cmac_gates,
                   metadata, fuzz, meta0, fields0, sel>>
    /\ UNCHANGED parseVars

-----------------------------------------------------------------------------
(* Metadata *)

\* Lines 187-189: command_line = command_line + ' ' + item, for each item
\* of sys.argv (kept as the sequence of the pieces concatenated).
RECURSIVE CommandLine(_)
CommandLine(argv) ==
    IF Len(argv) = 0 THEN <<>>
    ELSE CommandLine(SubSeq(argv, 1, Len(argv) - 1)) \o <<" ", argv[Len(argv)]>>

\* Lines 191-212: the built-in block (texts abbreviated to their first words).
DefaultMeta ==
    [site_id |-> <<"sgp">>,
     data_level |-> <<"c1">>,
     comment |-> <<"This is highly experimental and initial data.">>,
     attributions |-> <<"This data is collected by the ARM Climate Research facility.">>,
     version |-> <<"2.0 lite">>,
     vap_name |-> <<"cmac">>,
     known_issues |-> <<"False phidp jumps in insect regions.">>,
     developers |-> <<"Robert Jackson, ANL. Zachary Sherman, ANL.">>,
     translator |-> <<"Scott Collis, ANL.">>,
     mentors |-> <<"Nitin Bharadwaj, PNNL. Bradley Isom, PNNL.">>]

\* What json.load returns for the file modelled, and config['metadata'].
FileMeta == [site_id |-> <<"from file">>, title |-> <<"file block">>]
ConfigMeta == [site_id |-> <<"from config">>, facility_id |-> <<"I5">>]

StrDotJson == <<".", "j", "s", "o", "n">>
StrConfig == <<"c", "o", "n", "f", "i", "g">>

\* meta_append values: None, or a string.
NoneValue == [none |-> TRUE, str |-> <<>>]
StrValue(s) == [none |-> FALSE, str |-> s]

\* The inputs of the metadata step: meta_append, what the named file holds
\* ("unreadable": open() raises; "object": a JSON object; "scalar": JSON that
\* is not an object), and whether config has a 'metadata' key.
MetaInputs ==
    { [meta_append |-> NoneValue, file |-> "unused",
       config_has_metadata |-> FALSE] }
    \cup { [meta_append |-> StrValue(path), file |-> f,
            config_has_metadata |-> FALSE] :
             path \in { <<"m">> \o StrDotJson,
                        <<"m", ".", "J", "S", "O", "N">> },
             f \in {"unreadable", "object", "scalar"} }
    \cup { [meta_append |-> StrValue(StrConfig), file |-> "unused",
            config_has_metadata |-> c] : c \in BOOLEAN }
    \cup { [meta_append |-> StrValue(w), file |-> "unused",
            config_has_metadata |-> TRUE] :
             w \in { <<"C", "o", "n", "f", "i", "g">>,
                     <<"m", "e", "t", "a">> } }

\* Variant: an unsupported specifier falls back to the built-in block.
SelectMetaFallback(inp) ==
    LET ma == inp.meta_append IN
    IF ma.none THEN [err |-> "none", mapping |-> TRUE, meta |-> DefaultMeta]
    ELSE IF EndsWith(Lower(ma.str), StrDotJson)
    THEN CASE inp.file = "unreadable" ->
                [err |-> "IOError", mapping |-> FALSE, meta |-> EmptyDict]
           [] inp.file = "object" ->
                [err |-> "none", mapping |-> TRUE, meta |-> FileMeta]
           [] OTHER ->
                [err |-> "none", mapping |-> FALSE, meta |-> EmptyDict]
    ELSE IF ma.str = StrConfig /\ inp.config_has_metadata
    THEN [err |-> "none", mapping |-> TRUE, meta |-> ConfigMeta]
    ELSE [err |-> "none", mapping |-> TRUE, meta |-> DefaultMeta]

\* Lines 190-222: the block to attach, or the exception raised on the way.
SelectMeta(inp) ==
    LET ma == inp.meta_append IN
    IF ma.none THEN [err |-> "none", mapping |-> TRUE, meta |-> DefaultMeta]
    ELSE IF EndsWith(Lower(ma.str), StrDotJson)
    THEN CASE inp.file = "unreadable" ->
                [err |-> "IOError", mapping |-> FALSE, meta |-> EmptyDict]
           [] inp.file = "object" ->
                [err |-> "none", mapping |-> TRUE, meta |-> FileMeta]
           [] OTHER ->
                [err |-> "none", mapping |-> FALSE, meta |-> EmptyDict]
    ELSE IF ma.str = StrConfig
    THEN IF inp.config_has_metadata
         THEN [err |-> "none", mapping |-> TRUE, meta |-> ConfigMeta]
         ELSE [err |-> "KeyError", mapping |-> FALSE, meta |-> EmptyDict]
    ELSE [err |-> "RuntimeError", mapping |-> FALSE, meta |-> EmptyDict]

\* Variant: the block is merged into the metadata already there.
AttachMetaMerge(old, meta, command_line) ==
    DictUpdate(DictMerge(old, meta), "command_line", command_line)

\* Lines 224-226: clear(), update(meta), then the command_line key.
AttachMeta(old, meta, command_line) ==
    DictUpdate(DictMerge(EmptyDict, meta), "command_line", command_line)

\* Lines 187-227.
Metadata ==
    /\ pc = "meta"
    /\ \E inp \in MetaInputs :
        LET chosen == SelectMeta(inp)
        IN  /\ sel' = inp
            /\ IF chosen.err # "none"
               THEN /\ Raise(chosen.err)
                    /\ UNCHANGED <<metadata, steps>>
               ELSE IF ~chosen.mapping
               THEN /\ metadata' = EmptyDict
                    /\ Raise("TypeError")
                    /\ UNCHANGED steps
               ELSE /\ metadata' =
                         AttachMeta(metadata, chosen.meta, CommandLine(Argv))
                    /\ Advance("meta")
    /\ UNCHANGED <<calls, fields, clutter, refl_mask, gate_id, cat_dict,
                   cmac_gates, spec_at, rain_rate, fuzz, written, meta0,
                   fields0>>
    /\ UNCHANGED parseVars

Next ==
    \/ Call
    \/ DeriveFields
    \/ Classify
    \/ ClutterOverride
    \/ VelocityCorrection
    \/ PhaseCorrection
    \/ AttenuationCorrection
    \/ RainRate
    \/ Metadata

Spec == Init /\ [][Next]_vars

-----------------------------------------------------------------------------
(* The notes parser on its own: notes strings written from up to           *)
(* MaxEntries entries, each parsed by the code of both parse sites.        *)

\* An entry as the classifier writes it ("pair": <id>:<label>) and three
\* ways an entry can be damaged: the colon missing, an id that is no
\* number, a second colon.
EntryPool ==
    { [kind |-> "pair", id |-> 0, label |-> LblRain],
      [kind |-> "pair", id |-> 1, label |-> LblSnow],
      [kind |-> "pair", id |-> 2, label |-> LblMelting],
      [kind |-> "pair", id |-> 3, label |-> LblClutter],
      [kind |-> "pair", id |-> 12, label |-> LblRain],
      [kind |-> "nocolon", id |-> 1, label |-> LblSnow],
      [kind |-> "badid", id |-> 0, label |-> LblMelting],
      [kind |-> "extra", id |-> 4, label |-> LblSnow] }

EntryText(e) ==
    CASE e.kind = "pair" -> StrOfInt(e.id) \o <<":">> \o e.label
      [] e.kind = "nocolon" -> StrOfInt(e.id) \o e.label
      [] e.kind = "badid" -> <<"x", ":">> \o e.label
      [] OTHER -> StrOfInt(e.id) \o <<":">> \o e.label \o <<":", "x">>

NotesText(entries) ==
    Join([i \in 1..Len(entries) |-> EntryText(entries[i])], ",")

InitParse ==
    /\ pc = "idle"
    /\ calls = 0
    /\ failure = "none"
    /\ fields = InputFields
    /\ clutter = NoData
    /\ refl_mask = [g \in Gates |-> FALSE]
    /\ gate_id = NoGateId
    /\ cat_dict = NoCatDict
    /\ cmac_gates = {}
    /\ spec_at = NoData
    /\ rain_rate = NoData
    /\ metadata = PriorMeta
    /\ fuzz = NoGateId
    /\ written = {}
    /\ steps = <<>>
    /\ meta0 = PriorMeta
    /\ fields0 = InputFields
    /\ sel = NoSel
    /\ p_entries \in UNION { [1..n -> EntryPool] : n \in 1..MaxEntries }
    /\ p_notes = NotesText(p_entries)
    /\ p_first = NoCatDict
    /\ p_second = NoCatDict

\* Lines 90-93 applied to the notes.
ParseFirst ==
    /\ p_first.err = "unset"
    /\ p_first' = ParseNotes(p_notes)
    /\ UNCHANGED <<p_entries, p_notes, p_second>>
    /\ UNCHANGED pipeVars

\* Lines 140-144 applied to the notes.
ParseSecond ==
    /\ p_second.err = "unset"
    /\ p_second' = ParseNotesAtten(p_notes)
    /\ UNCHANGED <<p_entries, p_notes, p_first>>
    /\ UNCHANGED pipeVars

NextParse ==
    \/ ParseFirst
    \/ ParseSecond

SpecParse == InitParse /\ [][NextParse]_vars

-----------------------------------------------------------------------------
(* Properties *)

DerivedFields ==
    {"sounding_temperature", "height", "signal_to_noise_ratio",
     "velocity_texture", "gate_id", "corrected_velocity",
     "corrected_differential_phase", "filtered_corrected_differential_phase",
     "corrected_specific_diff_phase", "filtered_corrected_specific_diff_phase",
     "specific_attenuation", "attenuation_corrected_reflectivity",
     "rain_rate_A"}

\* The step named has completed in the current call.
Completed(step) == \E i \in 1..Len(steps) : steps[i] = step

\* The id the classifier itself gave to a label (position in its
\* vocabulary), and its largest id.
ClassifierId(label) ==
    LET v == CHOOSE w \in Vocabularies : Len(w) = fuzz.valid_max + 1
    IN  (CHOOSE i \in 1..Len(v) : v[i] = label) - 1

ClassifierMaxId == fuzz.valid_max

\* The metadata step of the current call has run (to its end or to an
\* exception).
MetaStepRan ==
    \/ pc = "done"
    \/ pc = "failed" /\ Len(steps) = 7

\* C1: the steps of a run occur in the fixed order; classification (with the
\* clutter override and the label parse) is complete before velocity, phase
\* and attenuation correction start, the filtered phase field is written
\* before attenuation correction starts, specific_attenuation is written
\* before the rain rate is derived, and no step starts before every derived
\* field it reads has been written by the current run.
C1_StepsInOrder ==
    LET order == <<"derive", "classify", "clutter", "velocity", "phase",
                   "atten", "rain", "meta">>
    IN  /\ Len(steps) <= Len(order)
        /\ \A i \in 1..Len(steps) : steps[i] = order[i]
        /\ pc \in {"velocity", "phase", "atten"} =>
              /\ "gate_id" \in written
              /\ Completed("classify") /\ Completed("clutter")
              /\ cat_dict.err = "none"
              /\ LblClutter \in DOMAIN cat_dict.dict
        /\ pc = "atten" =>
              /\ Completed("phase")
              /\ "filtered_corrected_differential_phase" \in written
        /\ pc = "rain" =>
              /\ Completed("atten")
              /\ "specific_attenuation" \in written
        /\ Reads(pc) \subseteq written

C1_Witness ==
    /\ pc = "done"
    /\ Len(steps) = 8
    /\ DerivedFields \subseteq written

C3_MetadataReplaced ==
    LET ma == sel.meta_append
        expected(block) ==
            [k \in (DOMAIN block) \cup {"command_line"} |->
                IF k = "command_line" THEN <<" ", "cmac", " ", "radar.nc">>
                ELSE block[k]]
        replaced(block) ==
            /\ metadata = expected(block)
            /\ \A k \in DOMAIN meta0 :
                  k \notin (DOMAIN block) \cup {"command_line"}
                      => k \notin DOMAIN metadata
    IN  pc = "done" =>
          /\ ma.none => replaced(DefaultMeta)
          /\ (~ma.none /\ EndsWith(ma.str, StrDotJson)) => replaced(FileMeta)
          /\ (~ma.none /\ ma.str = StrConfig) => replaced(ConfigMeta)

C3_Witness ==
    /\ pc = "done"
    /\ sel.meta_append = StrValue(<<"m">> \o StrDotJson)
    /\ "instrument_name" \in DOMAIN meta0
    /\ "instrument_name" \notin DOMAIN metadata
    /\ metadata.title = FileMeta.title

\* C4 as stated: once the override has run, the id written into the
\* clutter-masked gates, the id of the appended notes entry and valid_max
\* all equal the classifier's maximum category id plus one.
C4_AsStated ==
    Completed("clutter") =>
        /\ \A g \in Gates :
              clutter[g] = 1 => gate_id.data[g] = ClassifierMaxId + 1
        /\ cat_dict.dict[LblClutter] = ClassifierMaxId + 1
        /\ gate_id.valid_max = ClassifierMaxId + 1

C6_RainRateLaw ==
    /\ [](Completed("rain") =>
            \A g \in Gates :
                IF refl_mask[g] THEN rain_rate[g] = 0
                ELSE /\ spec_at[g] = 0 => rain_rate[g] = 0
                     /\ spec_at[g] = 1 => rain_rate[g] = 513
                     /\ spec_at[g] = 16 => rain_rate[g] = 4847
                     /\ spec_at[g] \in {0, 1, 16})
    /\ [][pc = "rain" => spec_at' = spec_at]_vars

C6_Witness ==
    /\ Completed("rain")
    /\ \E g \in Gates :
          /\ ~refl_mask[g]
          /\ spec_at[g] = 16
          /\ rain_rate[g] = 4847
          /\ rain_rate[g] > 4000

\* C7 as stated: a call on a volume that an earlier call has processed does
\* not fail because a field already exists.
C7_AsStated ==
    (calls >= 2 /\ DerivedFields \subseteq fields0)
        => ~(pc = "failed" /\ failure = "ValueError")

\* C8: once the attenuation step of a run has added specific_attenuation,
\* the value is 0.0 at every gate whose gate_id (after the override) is not
\* the rain id, so at every clutter-masked gate whatever the classifier
\* called it; a gate with a non-zero value is a rain gate.
C8_AttenuationOnlyInRain ==
    "specific_attenuation" \in written =>
        \A g \in Gates :
            /\ gate_id.data[g] # ClassifierId(LblRain) => spec_at[g] = 0
            /\ clutter[g] = 1 => spec_at[g] = 0
            /\ spec_at[g] # 0 =>
                  /\ gate_id.data[g] = ClassifierId(LblRain)
                  /\ fuzz.data[g] = ClassifierId(LblRain)

C8_Witness ==
    /\ "specific_attenuation" \in written
    /\ \E g \in Gates :
          /\ fuzz.data[g] = ClassifierId(LblRain)
          /\ clutter[g] = 1
          /\ gate_id.data[g] # ClassifierId(LblRain)
          /\ spec_at[g] = 0

\* C9: the gate filter built for dealiasing, and used again by the phase
\* post-filter, includes a gate exactly when its gate_id after the override
\* is the rain, melting or snow id; clutter-masked gates are excluded
\* whatever the classifier called them, and so are gates of other classes.
C9_FilterIsPrecipitation ==
    Completed("velocity") =>
        \A g \in Gates :
            /\ g \in cmac_gates <=>
                  gate_id.data[g] \in {ClassifierId(LblRain),
                                       ClassifierId(LblMelting),
                                       ClassifierId(LblSnow)}
            /\ clutter[g] = 1 => g \notin cmac_gates
            /\ g \in cmac_gates => fuzz.data[g] = gate_id.data[g]

C9_Witness ==
    /\ Completed("phase")
    /\ \E g \in Gates :
          /\ clutter[g] = 1
          /\ fuzz.data[g] = ClassifierId(LblSnow)
          /\ g \notin cmac_gates

\* C10: nothing is rolled back and nothing is retried.  Every field a run
\* has written is on the volume when the run fails, a failed run takes no
\* further step (only a new call follows), and a run rejected for its
\* meta_append has by then written every derived field, rain_rate_A
\* included, and leaves the metadata as it was.
C10_NoRollbackNoRetry ==
    /\ [](/\ written \subseteq fields
          /\ fields0 \subseteq fields
          /\ (pc = "failed" /\ failure = "RuntimeError") =>
                /\ DerivedFields \subseteq written
                /\ "rain_rate_A" \in fields
                /\ metadata = meta0)
    /\ [][pc = "failed" => (pc' = "derive" /\ calls' = calls + 1)]_vars

C10_Witness ==
    /\ pc = "failed"
    /\ failure = "RuntimeError"
    /\ DerivedFields \subseteq fields
    /\ metadata = meta0

====
